---- MODULE Spec2Model ----
(***************************************************************************)
(* Model of the blog backend: the OpenRouter generation client             *)
(* (services/aiClient.js), the article service over the sqlite store       *)
(* (services/articleService.js, db.js) and the HTTP route that creates an  *)
(* article (routes/articles.js).                                           *)
(*                                                                         *)
(* JavaScript strings are TLA+ strings; a JSON value that the code only    *)
(* tests for truthiness and then uses as a string is a record              *)
(* [t |-> type, s |-> text].                                               *)
(***************************************************************************)
EXTENDS Integers, Sequences, FiniteSets, TLC

(***************************************************************************)
(* JavaScript string primitives used by the code.                          *)
(***************************************************************************)
Min(a, b) == IF a < b THEN a ELSE b

\* s[i] as a one-character string
charAt(s, i) == SubSeq(s, i, i)

\* the characters String.prototype.trim and the regexp class \s remove
WhiteSpace == {" ", "\n", "\t", "\r"}

RECURSIVE trimStart(_)
trimStart(s) ==
  IF s # "" /\ charAt(s, 1) \in WhiteSpace
    THEN trimStart(SubSeq(s, 2, Len(s)))
    ELSE s

RECURSIVE trimEnd(_)
trimEnd(s) ==
  IF s # "" /\ charAt(s, Len(s)) \in WhiteSpace
    THEN trimEnd(SubSeq(s, 1, Len(s) - 1))
    ELSE s

\* String.prototype.trim
trim(s) == trimEnd(trimStart(s))

\* String.prototype.slice(0, n)
slice0(s, n) == SubSeq(s, 1, Min(n, Len(s)))

\* String.prototype.includes
includesStr(s, t) ==
  \E i \in 1..(Len(s) - Len(t) + 1) : SubSeq(s, i, i + Len(t) - 1) = t

\* String.prototype.split(sep): the pieces between the occurrences of sep
RECURSIVE split(_, _)
split(s, sep) ==
  LET hits == {i \in 1..(Len(s) - Len(sep) + 1) : SubSeq(s, i, i + Len(sep) - 1) = sep}
  IN  IF hits = {}
        THEN <<s>>
        ELSE LET i == CHOOSE j \in hits : \A k \in hits : j <= k
             IN  <<SubSeq(s, 1, i - 1)>> \o split(SubSeq(s, i + Len(sep), Len(s)), sep)

\* Array.prototype.filter(Boolean) on an array of strings: drops the empty ones
RECURSIVE filterBoolean(_)
filterBoolean(xs) ==
  IF xs = <<>> THEN <<>>
  ELSE IF Head(xs) = "" THEN filterBoolean(Tail(xs))
  ELSE <<Head(xs)>> \o filterBoolean(Tail(xs))

\* Array.prototype.join(sep)
RECURSIVE join(_, _)
join(xs, sep) ==
  IF xs = <<>> THEN ""
  ELSE IF Len(xs) = 1 THEN xs[1]
  ELSE xs[1] \o sep \o join(Tail(xs), sep)

\* s.replace(/^#+/, ''): the leading run of '#' removed
RECURSIVE stripHashes(_)
stripHashes(s) ==
  IF s # "" /\ charAt(s, 1) = "#" THEN stripHashes(SubSeq(s, 2, Len(s))) ELSE s

\* the title line left as it is
stripHeadingNone(s) == s

\* titleLine.replace(/^#+\s*/, ''): one or more '#' at the start, then any
\* white space after them; a line that does not start with '#' is unchanged
stripHeading(s) ==
  IF s # "" /\ charAt(s, 1) = "#" THEN trimStart(stripHashes(s)) ELSE s

(***************************************************************************)
(* JSON values as far as the code looks at them.                           *)
(***************************************************************************)
Null == [t |-> "null", s |-> ""]
Str(s) == [t |-> "str", s |-> s]
Num(s) == [t |-> "num", s |-> s]

\* JavaScript truthiness of a value
truthy(v) ==
  \/ v.t = "str" /\ v.s # ""
  \/ v.t = "num" /\ v.s # "0"

(***************************************************************************)
(* aiClient.js: configuration.                                             *)
(***************************************************************************)
fallbackModel == "meta-llama/llama-3.2-3b-instruct:free"

alternativeFreeModels ==
  << "meta-llama/llama-3.2-3b-instruct:free",
     "meta-llama/llama-3.1-8b-instruct:free",
     "google/gemini-flash-1.5:free",
     "mistralai/mistral-7b-instruct:free",
     "qwen/qwen-2-7b-instruct:free" >>

\* const configuredModel = (process.env.AI_MODEL || '').trim() || fallbackModel
configuredModelOf(aiModel) ==
  IF trim(aiModel) # "" THEN trim(aiModel) ELSE fallbackModel

\* Array.prototype.includes on an array of strings
includes(xs, x) == \E i \in 1..Len(xs) : xs[i] = x

\* xs.filter(m => m !== x)
RECURSIVE filterNot(_, _)
filterNot(xs, x) ==
  IF xs = <<>> THEN <<>>
  ELSE IF Head(xs) = x THEN filterNot(Tail(xs), x)
  ELSE <<Head(xs)>> \o filterNot(Tail(xs), x)

\* [...new Set(xs)]: duplicates removed, first-seen order kept
RECURSIVE dedupe(_)
dedupe(xs) ==
  IF xs = <<>> THEN <<>>
  ELSE <<Head(xs)>> \o dedupe(filterNot(Tail(xs), Head(xs)))

\* modelsToTry with the configured model pushed after the alternatives
modelsToTryLast(model) == alternativeFreeModels \o <<model>>

\* modelsToTry: the configured model, then the alternatives
modelsToTry(model) ==
  IF ~includes(alternativeFreeModels, model)
    THEN <<model>> \o alternativeFreeModels
    ELSE <<model>> \o filterNot(alternativeFreeModels, model)

uniqueModels(model) == dedupe(modelsToTry(model))

(***************************************************************************)
(* aiClient.js: response bodies and normalizeGeneratedText.                *)
(*                                                                         *)
(* A body is what axios hands over as `data`: null (or any falsy value),   *)
(* a bare string, or an object.  Of an object the code reads `choices`     *)
(* ("absent", "empty": [], "null": [null], "one": [choice]), the choice's  *)
(* message.content and text, and the top-level content and text.           *)
(***************************************************************************)
NullBody ==
  [kind |-> "null", str |-> "", choices |-> "absent", hasMessage |-> FALSE,
   messageContent |-> Null, choiceText |-> Null, content |-> Null, text |-> Null]

StringBody(s) == [NullBody EXCEPT !.kind = "str", !.str = s]

ObjectBody == [NullBody EXCEPT !.kind = "obj"]

ChatBody(v) ==
  [ObjectBody EXCEPT !.choices = "one", !.hasMessage = TRUE, !.messageContent = v]

\* !response
falsyBody(response) ==
  \/ response.kind = "null"
  \/ response.kind = "str" /\ response.str = ""

\* the tail of normalizeGeneratedText: bare string, .content, .text, null
normalizeFallback(response) ==
  IF response.kind = "str" THEN Str(response.str)
  ELSE IF truthy(response.content) THEN response.content
  ELSE IF truthy(response.text) THEN response.text
  ELSE Null

\* normalizeGeneratedText(response): [threw, value]; it throws a TypeError
\* when choices[0] is null (choice.message is read of null)
normalizeGeneratedText(response) ==
  IF falsyBody(response) THEN [threw |-> FALSE, value |-> Null]
  ELSE IF response.kind = "obj" /\ response.choices \in {"null", "one"}
    THEN IF response.choices = "null"
           THEN [threw |-> TRUE, value |-> Null]
         ELSE IF response.hasMessage /\ truthy(response.messageContent)
           THEN [threw |-> FALSE, value |-> response.messageContent]
         ELSE IF truthy(response.choiceText)
           THEN [threw |-> FALSE, value |-> response.choiceText]
         ELSE [threw |-> FALSE, value |-> normalizeFallback(response)]
  ELSE [threw |-> FALSE, value |-> normalizeFallback(response)]

(***************************************************************************)
(* aiClient.js: errors of an axios call.  An error carries a response      *)
(* with a status ("http"), or none ("timeout", "network"), or is a         *)
(* TypeError thrown by the code itself ("type").                           *)
(***************************************************************************)
HttpError(status) == [kind |-> "http", status |-> status]
TimeoutError == [kind |-> "timeout", status |-> 0]
NetworkError == [kind |-> "network", status |-> 0]
TypeError == [kind |-> "type", status |-> 0]
NoError == [kind |-> "none", status |-> 0]

\* formatHttpError(err).status; 0 stands for undefined
formatHttpErrorStatus(err) == IF err.kind = "http" THEN err.status ELSE 0

(***************************************************************************)
(* aiClient.js: generateFallback and the parsing in generateArticle.       *)
(***************************************************************************)
paragraphs(topic) ==
  << "In today's fast-paced landscape, " \o topic
       \o " continues to shape how teams deliver value.",
     "Practitioners emphasize iterative learning, pragmatic tooling, and measurable outcomes as the best path to sustainable progress.",
     "Looking ahead, expect lightweight automation, sensible defaults, and a human-first perspective to remain central to successful "
       \o topic \o " initiatives." >>

\* generateFallback with a title that leaves the topic out
generateFallbackUntitled(topic) ==
  [title |-> "Fallback article", content |-> join(paragraphs(topic), "\n\n")]

generateFallback(topic) ==
  [title |-> "Fallback article on " \o topic,
   content |-> join(paragraphs(topic), "\n\n")]

\* title.slice(0, 140)
TitleMax == 140

\* lines 379-394: the {title, content} parsed from a string llmResult
articleFromText(llmResult, topic) ==
  LET lines == filterBoolean(split(trim(llmResult), "\n"))
      first == IF lines = <<>> THEN "" ELSE lines[1]
      titleLine == trim(stripHeading(first))
      sliced == slice0(titleLine, TitleMax)
      contentLines == IF lines = <<>> THEN <<>> ELSE Tail(lines)
  IN  [title |-> IF sliced # "" THEN sliced ELSE "New article on " \o topic,
       content |-> IF Len(contentLines) > 0
                     THEN trim(join(contentLines, "\n"))
                     ELSE trim(llmResult)]

\* the body of generateArticle's try block (lines 377-399) once
\* generateViaOpenRouter has returned llmResult: [threw, article].
\* llmResult.trim() throws a TypeError when llmResult is truthy and no string.
generateArticleTry(llmResult, topic) ==
  IF truthy(llmResult)
    THEN IF llmResult.t = "str"
           THEN [threw |-> FALSE, article |-> articleFromText(llmResult.s, topic)]
           ELSE [threw |-> TRUE, article |-> [title |-> "", content |-> ""]]
    ELSE [threw |-> FALSE, article |-> generateFallback(topic)]

\* generateArticle without its catch block
generateArticleNoCatch(llmResult, topic) ==
  LET r == generateArticleTry(llmResult, topic)
  IN  [rejected |-> r.threw, article |-> r.article]

\* generateArticle from the return of generateViaOpenRouter on: the try
\* block, and the catch block that answers the fallback (lines 373-405).
\* [rejected, article]
generateArticleSettle(llmResult, topic) ==
  LET r == generateArticleTry(llmResult, topic)
  IN  IF r.threw
        THEN [rejected |-> FALSE, article |-> generateFallback(topic)]
        ELSE [rejected |-> FALSE, article |-> r.article]

(***************************************************************************)
(* articleService.js: the seed rows, and routes/articles.js: the default   *)
(* topic.                                                                  *)
(***************************************************************************)
samples ==
  << [title |-> "Building Product-Led Growth in B2B SaaS",
      content |-> "Product-Led Growth (PLG) has become the dominant go-to-market strategy for modern B2B SaaS companies. Unlike traditional sales-led approaches, PLG focuses on delivering immediate value through the product itself, allowing users to experience core functionality before committing to a purchase. Successful PLG implementations require seamless onboarding flows, in-app guidance, and freemium models that showcase your product's unique value proposition. Key metrics to track include time-to-value, feature adoption rates, and conversion from free to paid tiers. Companies like Slack, Notion, and Figma have demonstrated that when done right, PLG can dramatically reduce customer acquisition costs while increasing organic growth through viral loops and word-of-mouth referrals."],
     [title |-> "Decentralized Storage Networks: The Foundation of Web3 Infrastructure",
      content |-> "Decentralized storage networks like IPFS, Arweave, and Filecoin are revolutionizing how data is stored and accessed on the internet. Unlike traditional cloud storage, these networks distribute data across thousands of nodes, eliminating single points of failure and reducing censorship risks. IPFS (InterPlanetary File System) uses content-addressing to create a distributed web where files are identified by their cryptographic hash rather than location. Arweave offers permanent storage through a novel consensus mechanism called Proof of Access, while Filecoin creates a marketplace for storage providers. These technologies are critical infrastructure for Web3 applications, enabling decentralized social networks, NFT marketplaces, and blockchain-based applications that require reliable, censorship-resistant data storage."],
     [title |-> "Customer Success Metrics That Drive B2B SaaS Retention",
      content |-> "In B2B SaaS, customer retention is the lifeblood of sustainable growth. While acquisition metrics get attention, retention metrics directly impact revenue and profitability. Key indicators include Net Revenue Retention (NRR), which measures expansion revenue from existing customers, and Customer Lifetime Value (LTV) to Customer Acquisition Cost (CAC) ratios. Product engagement scores, feature adoption rates, and time-to-first-value are leading indicators of churn risk. Successful SaaS companies implement health scoring systems that combine product usage, support ticket volume, and payment behavior to identify at-risk accounts early. Proactive outreach, personalized onboarding, and strategic account management can turn potential churn into expansion opportunities, transforming satisfied customers into advocates who drive referrals and case studies."] >>

DefaultTopic == "B2B SaaS and open-source Web3 infrastructure"

(***************************************************************************)
(* The inputs of the model.                                                *)
(***************************************************************************)
\* String.prototype.repeat
RECURSIVE repeat(_, _)
repeat(s, n) == IF n = 0 THEN "" ELSE s \o repeat(s, n - 1)

\* a topic so long that a title built around it passes 140 characters
LongTopic == repeat("Decentralized storage ", 7)

\* topics a caller passes to generateArticle
Topics == {"DAOs", LongTopic}

\* the topic field of the body of POST /generate (Null when the body has
\* none): the values of the service model
BodyTopics == {Null, Str("DAOs")}

\* the same, with the empty string among them
RouteTopics == {Null, Str(""), Str("DAOs")}

\* texts the chat-completion service answers with
Texts ==
  { "# Hello\nWorld",
    "Just one line",
    "   ",
    "##\nOnly a body",
    "# " \o repeat("Long title ", 14) \o "\n\nFirst paragraph.\n\nSecond paragraph.\n" }

\* response bodies of a 2xx chat-completion answer: one per shape that
\* normalizeGeneratedText tells apart
GenBodies ==
  { ChatBody(Str(t)) : t \in Texts }
    \cup { ChatBody(Num("42")),
           ChatBody(Str("")),
           [ObjectBody EXCEPT !.choices = "one", !.choiceText = Str("# Hello\nWorld")],
           StringBody("# Hello\nWorld"),
           [ObjectBody EXCEPT !.content = Str("# Hello\nWorld")],
           [ObjectBody EXCEPT !.text = Str("# Hello\nWorld")],
           [ObjectBody EXCEPT !.choices = "empty"],
           [ObjectBody EXCEPT !.choices = "null"],
           ObjectBody,
           NullBody }

\* response bodies of every shape normalizeGeneratedText reads: null, a
\* bare string (empty or not), and objects with or without each of
\* choices[0].message.content, choices[0].text, content and text, each
\* field with a text of its own
NormBodies ==
  { NullBody, StringBody(""), StringBody("# S\ns") }
    \cup { [ObjectBody EXCEPT !.choices = ch, !.content = c, !.text = x] :
             ch \in {"absent", "empty", "null"},
             c \in {Null, Str("# C\nc")}, x \in {Null, Str("# X\nx")} }
    \cup { [ObjectBody EXCEPT !.choices = "one", !.hasMessage = (m.t # "absent"),
                              !.messageContent = IF m.t = "absent" THEN Null ELSE m,
                              !.choiceText = ct, !.content = c, !.text = x] :
             m \in {[t |-> "absent", s |-> ""], Null, Str(""), Str("# M\nm")},
             ct \in {Null, Str("# T\nt")},
             c \in {Null, Str("# C\nc")}, x \in {Null, Str("# X\nx")} }

\* the bodies the chat-completion service answers with in the service model
ServiceBodies ==
  { ChatBody(Str("# Hello\nWorld")), ChatBody(Str("   ")), ChatBody(Num("42")), ObjectBody }

\* ids asked of GET /api/articles/:id: one a row gets, one no row gets
GetIds == {4, 9}

\* how an axios call can end: an error, or a 2xx answer with a body
Failed(err) == [ok |-> FALSE, err |-> err, data |-> NullBody]
Answered(body) == [ok |-> TRUE, err |-> NoError, data |-> body]

\* the ways a chat-completion request fails
PostErrors ==
  { HttpError(401), HttpError(429), HttpError(400), HttpError(404), HttpError(500),
    TimeoutError }

\* the ways it fails in the service model
ServicePostErrors == { HttpError(401), HttpError(429), TimeoutError }

\* the ways the model-listing request fails
GetErrors == { HttpError(401), HttpError(500), TimeoutError, NetworkError }

Outcomes(errors, bodies) ==
  { Failed(e) : e \in errors } \cup { Answered(b) : b \in bodies }

\* how the requests end in the store model: unauthorized, or answered
StoreGetOutcomes == { Failed(HttpError(401)), Answered(ObjectBody) }
StorePostOutcomes == { Failed(HttpError(401)), Answered(ChatBody(Str("# Hello\nWorld"))) }

\* process.env.OPENROUTER_API_KEY ("" when it is not set)
ApiKeys == {"", "sk-or-v1-0123456789"}

\* process.env.AI_MODEL ("" when it is not set)
AiModels == {"", "google/gemini-flash-1.5:free", "openai/gpt-4o-mini"}

\* the callers of createArticle: an HTTP request and the scheduled job
Callers == {"http", "cron"}

(***************************************************************************)
(* The state.                                                              *)
(***************************************************************************)
VARIABLES
  apiKey,           \* process.env.OPENROUTER_API_KEY
  configuredModel,  \* aiClient.js: const configuredModel
  articles,         \* the rows of table articles, in insertion (rowid) order
  lastId,           \* the AUTOINCREMENT sequence of the table
  now,              \* CURRENT_TIMESTAMP, in seconds
  seedPc,           \* seedIfEmpty: "query", "callback", "insert1".."insert3",
                    \*   then "seeded", or "done" when it inserted nothing
  seedCount,        \* the count its query answered
  listening,        \* app.listen has bound the port
  callPc,           \* per caller: where its createArticle call stands
  callTopic,        \* per caller: the topic of the call
  candidate,        \* per caller: index in uniqueModels of the request in flight
  lastError,        \* per caller: generateViaOpenRouter's lastError
  llmResult,        \* per caller: what generateViaOpenRouter returned
  generated,        \* per caller: what generateArticle settled to
  lastID,           \* per caller: this.lastID of its INSERT
  response,         \* per caller: the HTTP response / the job's log line
  reply,            \* the answer of the last read-only request (GET /api/articles)
  gets,             \* history: per caller, model-listing requests the call issued
  posts,            \* history: per caller, models of the chat requests it issued
  ended,            \* history: per caller, how the model-listing request
                    \*   ended (verify), how many chat requests have ended
                    \*   (count), how the last of them ended (last), the
                    \*   text it carried (value) and how the ones before it
                    \*   ended (before)
  inserts,          \* history: per caller, rows the current call inserted
  stats,            \* history: createArticle calls started, resolved and
                    \*   rejected, rows they inserted, and runs of the cron
                    \*   callback (fired)
  body,             \* history: the topic field of the last POST /generate body
  lastBody,         \* history: the body of the last 2xx chat-completion answer
  diagPc,           \* testOpenRouterConnection: "idle", "listing" (the model
                    \*   listing is in flight), "generation" (the chat request
                    \*   is), "done" (it has returned)
  diagnostics,      \* its diagnostics object
  diagRequests,     \* history: the requests the running diagnostic call issued
  diagEnded,        \* history: how its listing and its chat request ended
  bootPc,           \* index.js: "aiClient" and "articleJob" (the imported
                    \*   module is about to be evaluated), "dotenv", "listen",
                    \*   then "running"
  dotenvFile,       \* the .env file ("" where it has no entry)
  processEnv,       \* process.env.AI_MODEL and process.env.CRON_SCHEDULE
  defaultSchedule   \* articleJob.js: const defaultSchedule

vars ==
  << apiKey, configuredModel, articles, lastId, now, seedPc, seedCount, listening,
     callPc, callTopic, candidate, lastError, llmResult, generated, lastID,
     response, reply,
     gets, posts, ended, inserts, stats, body, lastBody,
     diagPc, diagnostics, diagRequests, diagEnded,
     bootPc, dotenvFile, processEnv, defaultSchedule >>

envVars == << apiKey, configuredModel >>
storeVars == << articles, lastId, now >>
seedVars == << seedPc, seedCount >>
clientVars == << candidate, lastError >>
netVars == << gets, posts, ended >>
histVars == << body, lastBody >>
diagVars == << diagPc, diagnostics, diagRequests, diagEnded >>
bootVars == << bootPc, dotenvFile, processEnv, defaultSchedule >>
sideVars == << diagVars, bootVars >>

NoArticle == [state |-> "none", title |-> "", content |-> ""]
NoRow == [id |-> 0, title |-> "", content |-> "", created_at |-> 0]
NoResponse == [status |-> 0, error |-> "", details |-> "", row |-> NoRow]
NoReply ==
  [route |-> "none", status |-> 0, id |-> 0, rows |-> {}, error |-> "", details |-> "",
   db |-> ""]

\* a row left in data/blog.db by an earlier run of the process
OldRow == [id |-> 1, title |-> "Fallback article on DAOs",
           content |-> generateFallback("DAOs").content, created_at |-> 0]

\* no chat-completion answer yet
NoBody == [NullBody EXCEPT !.kind = "none"]

\* data/blog.db as an earlier run of the process seeded it
SeededStore ==
  [k \in 1..Len(samples) |->
     [id |-> k, title |-> samples[k].title, content |-> samples[k].content,
      created_at |-> 0]]

NoneEnded == [verify |-> "", count |-> 0, last |-> "", value |-> Null, before |-> {}]

\* bound of the model: createArticle calls in one behaviour
MaxCreates == 2

\* the diagnostics object before testOpenRouterConnection has run; -1, Null,
\* FALSE and 0 stand for the properties it has not got
NoDiagnostics ==
  [hasApiKey |-> FALSE, apiKeyLength |-> 0, configuredModel |-> "",
   fallbackModel |-> "", errors |-> <<>>, warnings |-> <<>>, success |-> FALSE,
   modelCount |-> -1, testResponse |-> Null, rawResponse |-> FALSE, statusCode |-> 0]

NoneDiagEnded == [listing |-> "", generation |-> ""]

\* a .env file without entries
NoEnvFile == [OPENROUTER_API_KEY |-> "", AI_MODEL |-> "", CRON_SCHEDULE |-> ""]

\* the process after index.js has run to its end with no .env file: the
\* modules read process.env as the shell left it
InitBooted ==
  /\ bootPc = "running"
  /\ dotenvFile = NoEnvFile
  /\ \E m \in AiModels :
       /\ processEnv = [AI_MODEL |-> m, CRON_SCHEDULE |-> ""]
       /\ configuredModel = configuredModelOf(m)
  /\ defaultSchedule = "0 3 * * *"

InitCalls ==
  /\ callPc = [c \in Callers |-> "idle"]
  /\ callTopic = [c \in Callers |-> ""]
  /\ candidate = [c \in Callers |-> 0]
  /\ lastError = [c \in Callers |-> NoError]
  /\ llmResult = [c \in Callers |-> Null]
  /\ generated = [c \in Callers |-> NoArticle]
  /\ lastID = [c \in Callers |-> 0]
  /\ response = [c \in Callers |-> NoResponse]
  /\ reply = NoReply
  /\ gets = [c \in Callers |-> 0]
  /\ posts = [c \in Callers |-> <<>>]
  /\ ended = [c \in Callers |-> NoneEnded]
  /\ inserts = [c \in Callers |-> 0]
  /\ stats = [started |-> 0, resolved |-> 0, rejected |-> 0, inserted |-> 0,
              fired |-> 0]
  /\ body = Null
  /\ lastBody = NoBody
  /\ diagPc = "idle"
  /\ diagnostics = NoDiagnostics
  /\ diagRequests = <<>>
  /\ diagEnded = NoneDiagEnded

\* the process right after its modules are loaded: db.js has created the
\* table, articleService.js has queued the count query of seedIfEmpty, and
\* index.js has called app.listen
Init ==
  /\ apiKey \in ApiKeys
  /\ configuredModel = configuredModelOf("")
  /\ articles \in {<<>>, <<OldRow>>}
  /\ lastId = Len(articles)
  /\ now = 1
  /\ seedPc = "query"
  /\ seedCount = 0
  /\ listening = FALSE
  /\ InitCalls
  /\ InitBooted

(***************************************************************************)
(* aiClient.js: generateArticle and generateViaOpenRouter, one step per    *)
(* awaited network answer.                                                 *)
(***************************************************************************)
\* if (!token), with the test lost
hasTokenAlways(token) == TRUE

\* if (!token)
hasToken(token) == token # ""

\* verifyToken answering false on every failure
verifyTokenStrict(o) == o.ok

\* verifyToken(token), given how its axios.get ended: false only on a 401
verifyToken(o) ==
  IF o.ok THEN TRUE
  ELSE IF formatHttpErrorStatus(o.err) = 401 THEN FALSE
  ELSE TRUE

\* if (text) taking only a string for a text
hasTextStringOnly(text) == text.t = "str" /\ text.s # ""

\* if (text): the candidate's answer is returned
hasText(text) == truthy(text)

\* the catch block never breaking
breaksLoopNever(status) == FALSE

\* the catch block breaking on a bad request too
breaksLoopOn400(status) == status \in {400, 401}

\* every client error status ending the loop
breaksLoopOnClientError(status) == status \in 400..499

\* the catch block of the candidate loop: break on this status
breaksLoop(status) == status = 401

\* what the caller of createArticle gets when the call rejects
\* a cron callback without its catch: nothing is logged
rejectionSilent(c, message) ==
  IF c = "http"
    THEN [status |-> 500, error |-> "Failed to generate article",
          details |-> message, row |-> NoRow]
    ELSE NoResponse

rejection(c, message) ==
  IF c = "http"
    THEN [status |-> 500, error |-> "Failed to generate article",
          details |-> message, row |-> NoRow]
    ELSE [status |-> 0, error |-> "Daily article generation failed",
          details |-> message, row |-> NoRow]

\* the route answering 200 for a created article
resolution200(c, row) ==
  [status |-> 200, error |-> "", details |-> "", row |-> row]

\* what the caller of createArticle gets when the call resolves to a row
resolution(c, row) ==
  IF c = "http"
    THEN [status |-> 201, error |-> "", details |-> "", row |-> row]
    ELSE [status |-> 0, error |-> "", details |-> "Daily article generated",
          row |-> NoRow]

\* generateViaOpenRouter returns result to generateArticle, which settles;
\* createArticle then queues its INSERT (or rejects), all in the same turn of
\* the event loop.  st is the value of stats to go on from.
Settle(c, t, result, st) ==
  LET g == generateArticleSettle(result, t)
  IN  /\ llmResult' = [llmResult EXCEPT ![c] = result]
      /\ generated' = [generated EXCEPT ![c] =
           IF g.rejected
             THEN [state |-> "rejected", title |-> "", content |-> ""]
             ELSE [state |-> "resolved", title |-> g.article.title,
                   content |-> g.article.content]]
      /\ callPc' = [callPc EXCEPT ![c] = IF g.rejected THEN "rejected" ELSE "insert"]
      /\ response' = [response EXCEPT ![c] =
           IF g.rejected THEN rejection(c, "generateArticle threw") ELSE NoResponse]
      /\ stats' = IF g.rejected THEN [st EXCEPT !.rejected = @ + 1] ELSE st
      /\ candidate' = [candidate EXCEPT ![c] = 0]
      /\ lastError' = [lastError EXCEPT ![c] = NoError]

\* createArticle(t) is called: generateArticle runs up to its first await
CreateStart(c, t) ==
  /\ listening
  /\ callPc[c] \in {"idle", "resolved", "rejected"}
  /\ stats.started < MaxCreates
  /\ callTopic' = [callTopic EXCEPT ![c] = t]
  /\ lastID' = [lastID EXCEPT ![c] = 0]
  /\ inserts' = [inserts EXCEPT ![c] = 0]
  /\ reply' = NoReply
  /\ LET st == [stats EXCEPT !.started = @ + 1,
                              !.fired = IF c = "cron" THEN @ + 1 ELSE @]
     IN  IF hasToken(apiKey)
           THEN /\ callPc' = [callPc EXCEPT ![c] = "verify"]
                /\ llmResult' = [llmResult EXCEPT ![c] = Null]
                /\ generated' = [generated EXCEPT ![c] = NoArticle]
                /\ response' = [response EXCEPT ![c] = NoResponse]
                /\ stats' = st
                /\ UNCHANGED clientVars
           ELSE Settle(c, t, Null, st)
  /\ UNCHANGED << envVars, storeVars, seedVars, listening >>

\* the route passing the default topic whatever the body says
topicOfDefault(bodyTopic) == DefaultTopic

\* const topic = req.body?.topic || default
topicOf(bodyTopic) == IF truthy(bodyTopic) THEN bodyTopic.s ELSE DefaultTopic

\* router.post('/generate')
RouteGenerate(bodyTopic) ==
  /\ CreateStart("http", topicOf(bodyTopic))
  /\ body' = bodyTopic

\* the cron callback: createArticle() with its default parameter

\* the callback of cron.schedule runs: one createArticle() with the default
\* topic, awaited inside try/catch; what the steps of the call leave in
\* response["cron"] is the line the callback logs
CronFire == CreateStart("cron", DefaultTopic)

\* the model-listing request of verifyToken ends with o
VerifyStep(c, o) ==
  /\ callPc[c] = "verify"
  /\ reply' = NoReply
  /\ IF verifyToken(o)
       THEN /\ callPc' = [callPc EXCEPT ![c] = "post"]
            /\ candidate' = [candidate EXCEPT ![c] = 1]
            /\ UNCHANGED << lastError, llmResult, generated, response, stats >>
       ELSE Settle(c, callTopic[c], Null, stats)
  /\ UNCHANGED << envVars, storeVars, seedVars, listening, callTopic, lastID, inserts >>

\* the chat-completion request for the candidate in flight ends with o:
\* one iteration of the for loop, up to the next request or the return
PostStep(c, o) ==
  /\ callPc[c] = "post"
  /\ reply' = NoReply
  /\ LET models == uniqueModels(configuredModel)
         i == candidate[c]
         n == normalizeGeneratedText(o.data)
         err == IF ~o.ok THEN o.err ELSE IF n.threw THEN TypeError ELSE NoError
         text == IF err.kind = "none" THEN n.value ELSE Null
         status == formatHttpErrorStatus(err)
     IN  IF err.kind = "none" /\ hasText(text)
           THEN Settle(c, callTopic[c], text, stats)
         ELSE IF (err.kind # "none" /\ breaksLoop(status)) \/ i = Len(models)
           THEN Settle(c, callTopic[c], Null, stats)
         ELSE /\ candidate' = [candidate EXCEPT ![c] = i + 1]
              /\ lastError' = [lastError EXCEPT ![c] = IF err.kind # "none" THEN err ELSE @]
              /\ UNCHANGED << callPc, llmResult, generated, response, stats >>
  /\ UNCHANGED << envVars, storeVars, seedVars, listening, callTopic, lastID, inserts >>

\* the requests a step of caller c puts on the network, and how the request
\* it handled ended
kindOf(o) ==
  IF ~o.ok THEN (IF o.err.kind = "http" THEN ToString(o.err.status) ELSE o.err.kind)
  ELSE IF normalizeGeneratedText(o.data).threw THEN "threw"
  ELSE IF truthy(normalizeGeneratedText(o.data).value) THEN "text"
  ELSE "notext"

Issued(c) ==
  /\ gets' = [gets EXCEPT ![c] =
       IF callPc'[c] = "verify" /\ callPc[c] # "verify" THEN @ + 1 ELSE @]
  /\ posts' = [posts EXCEPT ![c] =
       IF callPc'[c] = "post" /\ candidate'[c] # candidate[c]
         THEN Append(@, uniqueModels(configuredModel)[candidate'[c]])
         ELSE @]

Verified(c, o) == ended' = [ended EXCEPT ![c].verify = kindOf(o)]

Ended(c, o) ==
  ended' = [ended EXCEPT ![c] =
    [verify |-> @.verify, count |-> @.count + 1, last |-> kindOf(o),
     value |-> IF kindOf(o) = "text" THEN normalizeGeneratedText(o.data).value ELSE Null,
     before |-> IF @.last = "" THEN @.before ELSE @.before \cup {@.last}]]

(***************************************************************************)
(* db.js and articleService.js: the store.  A statement handed to sqlite   *)
(* runs later, as a step of its own, and may fail (ok = FALSE).            *)
(***************************************************************************)
\* the INSERT giving the id the sequence stands at
newRowSameId(title, content) ==
  [id |-> lastId, title |-> title, content |-> content, created_at |-> now]

\* INSERT INTO articles (title, content) VALUES (?, ?): the new row
newRow(title, content) ==
  [id |-> lastId + 1, title |-> title, content |-> content, created_at |-> now]

\* the re-read answering the first row of the table
selectFirst(id) == IF articles = <<>> THEN NoRow ELSE articles[1]

\* SELECT ... FROM articles WHERE id = ?: the row, or NoRow for undefined
selectById(id) ==
  IF \E i \in 1..Len(articles) : articles[i].id = id
    THEN articles[CHOOSE i \in 1..Len(articles) : articles[i].id = id]
    ELSE NoRow

\* ORDER BY created_at DESC: the sequences a set of rows may come in, newest
\* first, rows of one second in any order
RECURSIVE orderings(_)
orderings(rows) ==
  IF rows = {} THEN {<<>>}
  ELSE LET newest == {r \in rows : \A q \in rows : q.created_at <= r.created_at}
       IN  UNION { { <<r>> \o rest : rest \in orderings(rows \ {r}) } : r \in newest }

\* SELECT id, title, content, created_at FROM articles: the rows
selectAll == {articles[i] : i \in 1..Len(articles)}

\* the re-read by the rowid the connection inserted last
connectionLastID(c) == lastId

\* [this.lastID]: the rowid of the statement's own INSERT
thisLastID(c) == lastID[c]

\* createArticle: the INSERT runs; insertCallback queues the re-read or rejects
InsertStep(c, ok) ==
  /\ callPc[c] = "insert"
  /\ reply' = NoReply
  /\ IF ok
       THEN /\ articles' = Append(articles, newRow(generated[c].title, generated[c].content))
            /\ lastId' = lastId + 1
            /\ lastID' = [lastID EXCEPT ![c] = lastId + 1]
            /\ inserts' = [inserts EXCEPT ![c] = @ + 1]
            /\ callPc' = [callPc EXCEPT ![c] = "reread"]
            /\ stats' = [stats EXCEPT !.inserted = @ + 1]
            /\ UNCHANGED response
       ELSE /\ callPc' = [callPc EXCEPT ![c] = "rejected"]
            /\ response' = [response EXCEPT ![c] = rejection(c, "SQLITE_ERROR: insert")]
            /\ stats' = [stats EXCEPT !.rejected = @ + 1]
            /\ UNCHANGED << articles, lastId, lastID, inserts >>
  /\ UNCHANGED << envVars, now, seedVars, listening, callTopic, clientVars,
                  llmResult, generated >>

\* createArticle: the re-read by this.lastID runs; the call resolves to the
\* row or rejects
RereadStep(c, ok) ==
  /\ callPc[c] = "reread"
  /\ reply' = NoReply
  /\ IF ok
       THEN /\ callPc' = [callPc EXCEPT ![c] = "resolved"]
            /\ response' = [response EXCEPT ![c] = resolution(c, selectById(thisLastID(c)))]
            /\ stats' = [stats EXCEPT !.resolved = @ + 1]
       ELSE /\ callPc' = [callPc EXCEPT ![c] = "rejected"]
            /\ response' = [response EXCEPT ![c] = rejection(c, "SQLITE_ERROR: select")]
            /\ stats' = [stats EXCEPT !.rejected = @ + 1]
  /\ UNCHANGED << envVars, storeVars, seedVars, listening, callTopic,
                  clientVars, llmResult, generated, lastID, inserts >>

\* router.get('/') -> listArticles(): 200 with the rows, 500 on a store
\* error.  reply.rows holds the rows of the answer; the array they come in
\* is one of orderings(reply.rows).
ListArticles(ok) ==
  /\ listening
  /\ reply' = IF ok
                THEN [NoReply EXCEPT !.route = "list", !.status = 200, !.rows = selectAll]
                ELSE [NoReply EXCEPT !.route = "list", !.status = 500,
                                     !.error = "Failed to fetch articles",
                                     !.details = "SQLITE_ERROR: select"]
  /\ UNCHANGED << envVars, storeVars, seedVars, listening, callPc, callTopic,
                  clientVars, llmResult, generated, lastID, response, inserts, stats >>

\* the route taking every answer of getArticle for an article
isArticleAlways(row) == TRUE

\* if (!article) return res.status(404)
isArticle(row) == row # NoRow

\* router.get('/:id') -> getArticle(id): 200 with the row, 404 when the
\* query answers no row, 500 on a store error
GetArticle(id, ok) ==
  /\ listening
  /\ reply' = IF ~ok
                THEN [NoReply EXCEPT !.route = "get", !.status = 500, !.id = id,
                                     !.error = "Failed to fetch article",
                                     !.details = "SQLITE_ERROR: select"]
              ELSE IF isArticle(selectById(id))
                THEN [NoReply EXCEPT !.route = "get", !.status = 200, !.id = id,
                                     !.rows = {selectById(id)}]
              ELSE [NoReply EXCEPT !.route = "get", !.status = 404, !.id = id,
                                   !.error = "Not found"]
  /\ UNCHANGED << envVars, storeVars, seedVars, listening, callPc, callTopic,
                  clientVars, llmResult, generated, lastID, response, inserts, stats >>

\* the catch of /health answering like the other routes
healthStatus500(ok) == IF ok THEN 200 ELSE 500

\* res.json(...) answers 200, res.status(503).json(...) in the catch
healthStatus(ok) == IF ok THEN 200 ELSE 503

\* app.get('/health'): SELECT 1 runs; {ok: true, db: 'connected', timestamp}
\* when it succeeds, {ok: false, db: 'disconnected', error: err.message}
\* when not.  The ok field of the payload goes with db; the timestamp is the
\* time of the answer and is left out.
Health(ok) ==
  /\ listening
  /\ reply' = IF ok
                THEN [NoReply EXCEPT !.route = "health", !.status = healthStatus(ok),
                                     !.db = "connected"]
                ELSE [NoReply EXCEPT !.route = "health", !.status = healthStatus(ok),
                                     !.db = "disconnected",
                                     !.error = "SQLITE_ERROR: select"]
  /\ UNCHANGED << envVars, storeVars, seedVars, listening, callPc, callTopic,
                  clientVars, llmResult, generated, lastID, response, inserts, stats >>

\* router.get('/diagnostics/ai') -> testOpenRouterConnection(): its two
\* requests end with v and p; every failure is caught and recorded in the
\* diagnostics, which the route answers with 200.  It reads and writes no
\* state of the store or of a createArticle call.
Diagnostics(v, p) ==
  /\ listening
  /\ reply' = [NoReply EXCEPT !.route = "diagnostics", !.status = 200]
  /\ UNCHANGED << envVars, storeVars, seedVars, listening, callPc, callTopic,
                  clientVars, llmResult, generated, lastID, response, inserts, stats >>

(***************************************************************************)
(* aiClient.js: testOpenRouterConnection, one step per await.              *)
(***************************************************************************)
\* how the model-listing request of the diagnostic call ends: it fails with
\* err, or it is answered; data tells what response.data?.data is ("absent"
\* when falsy, "array", or "object" for a truthy value that is no array) and
\* ids are the id properties of the array's elements ("" where an element
\* has none)
ListFailed(err) == [ok |-> FALSE, err |-> err, data |-> "absent", ids |-> <<>>]
Listed(data, ids) == [ok |-> TRUE, err |-> NoError, data |-> data, ids |-> ids]

ListingOutcomes ==
  { ListFailed(e) : e \in GetErrors }
    \cup { Listed("absent", <<>>),
           Listed("object", <<>>),
           Listed("array", <<>>),
           Listed("array", << "openai/gpt-4o-mini", "", fallbackModel,
                              "google/gemini-flash-1.5:free" >>) }

\* err.message, as axios and V8 word it
errMessage(err) ==
  IF err.kind = "http" THEN "Request failed with status code " \o ToString(err.status)
  ELSE IF err.kind = "timeout" THEN "timeout exceeded"
  ELSE IF err.kind = "network" THEN "getaddrinfo ENOTFOUND openrouter.ai"
  ELSE "is not a function"

\* .filter(m => m.id && m.id.includes(':free')).map(m => m.id)
freeModelsOf(ids) == SelectSeq(ids, LAMBDA id : id # "" /\ includesStr(id, ":free"))

\* const diagnostics = {...}
newDiagnostics(token, model) ==
  [NoDiagnostics EXCEPT !.hasApiKey = token # "", !.apiKeyLength = Len(token),
                        !.configuredModel = model, !.fallbackModel = fallbackModel]

\* the catch of the listing step returning without a word
listingStepUnrecorded(d, o) ==
  IF ~o.ok \/ o.data = "object" THEN [returned |-> TRUE, d |-> d]
  ELSE IF o.data = "absent" THEN [returned |-> FALSE, d |-> d]
  ELSE [returned |-> FALSE,
        d |-> [d EXCEPT !.modelCount = Len(freeModelsOf(o.ids)),
                        !.warnings = IF includes(freeModelsOf(o.ids), d.configuredModel)
                                       THEN @
                                       ELSE Append(@, "Configured model not found in available free models")]]

\* the first try/catch: what the listing makes of diagnostics, and whether
\* the function returns there.  A data.data that is no array makes .filter
\* throw inside the try.
listingStep(d, o) ==
  IF ~o.ok
    THEN [returned |-> TRUE,
          d |-> [d EXCEPT !.errors =
                   Append(@, IF formatHttpErrorStatus(o.err) = 401
                               THEN "API key is invalid (401 Unauthorized)"
                               ELSE "Failed to verify API key: " \o errMessage(o.err))]]
  ELSE IF o.data = "object"
    THEN [returned |-> TRUE,
          d |-> [d EXCEPT !.errors =
                   Append(@, "Failed to verify API key: " \o errMessage(TypeError))]]
  ELSE IF o.data = "absent" THEN [returned |-> FALSE, d |-> d]
  ELSE [returned |-> FALSE,
        d |-> [d EXCEPT !.modelCount = Len(freeModelsOf(o.ids)),
                        !.warnings = IF includes(freeModelsOf(o.ids), d.configuredModel)
                                       THEN @
                                       ELSE Append(@, "Configured model not found in available free models")]]

\* the catch of the generation step
generationCaught(d, err) ==
  [d EXCEPT !.errors = Append(@, "Generation test failed: " \o errMessage(err)),
            !.statusCode = formatHttpErrorStatus(err)]

\* the second try/catch: what the chat request makes of diagnostics.
\* text.substring throws for a text that is no string, after success was set.
generationStep(d, o) ==
  IF ~o.ok THEN generationCaught(d, o.err)
  ELSE LET n == normalizeGeneratedText(o.data)
       IN  IF n.threw THEN generationCaught(d, TypeError)
           ELSE IF truthy(n.value)
             THEN IF n.value.t = "str"
                    THEN [d EXCEPT !.success = TRUE,
                                   !.testResponse = Str(slice0(n.value.s, 100))]
                    ELSE generationCaught([d EXCEPT !.success = TRUE], TypeError)
           ELSE [d EXCEPT !.errors = Append(@, "API returned data but could not extract text"),
                          !.rawResponse = TRUE]

\* the test request going to the fallback model
testModelFallback(model) == fallbackModel

\* buildOpenRouterPayload(testPrompt, configuredModel): the model of the test
testModel(model) == model

\* router.get('/diagnostics/ai'): res.json(diagnostics)
diagnosticsReply == [NoReply EXCEPT !.route = "diagnostics", !.status = 200]

\* GET /api/articles/diagnostics/ai comes in: testOpenRouterConnection runs
\* up to its first await, or returns at once without a credential
DiagStart ==
  /\ listening
  /\ diagPc \in {"idle", "done"}
  /\ diagEnded' = NoneDiagEnded
  /\ IF apiKey = ""
       THEN /\ diagnostics' = [newDiagnostics(apiKey, configuredModel) EXCEPT
                                 !.errors = Append(@, "OPENROUTER_API_KEY is not set")]
            /\ diagRequests' = <<>>
            /\ diagPc' = "done"
            /\ reply' = diagnosticsReply
       ELSE /\ diagnostics' = newDiagnostics(apiKey, configuredModel)
            /\ diagRequests' = << [method |-> "GET", model |-> ""] >>
            /\ diagPc' = "listing"
            /\ reply' = NoReply

\* the model-listing request ends with o
DiagListing(o) ==
  /\ diagPc = "listing"
  /\ diagnostics' = listingStep(diagnostics, o).d
  /\ diagEnded' = [diagEnded EXCEPT !.listing =
       IF o.ok THEN o.data
       ELSE IF o.err.kind = "http" THEN ToString(o.err.status) ELSE o.err.kind]
  /\ IF listingStep(diagnostics, o).returned
       THEN /\ diagPc' = "done"
            /\ reply' = diagnosticsReply
            /\ UNCHANGED diagRequests
       ELSE /\ diagPc' = "generation"
            /\ diagRequests' = Append(diagRequests,
                 [method |-> "POST", model |-> testModel(configuredModel)])
            /\ reply' = NoReply

\* the chat request ends with o; the function returns and the route answers
DiagGeneration(o) ==
  /\ diagPc = "generation"
  /\ diagnostics' = generationStep(diagnostics, o)
  /\ diagEnded' = [diagEnded EXCEPT !.generation = kindOf(o)]
  /\ diagPc' = "done"
  /\ reply' = diagnosticsReply
  /\ UNCHANGED diagRequests

\* seedIfEmpty: the count query runs
SeedQuery(ok) ==
  /\ seedPc = "query"
  /\ seedPc' = IF ok THEN "callback" ELSE "done"
  /\ seedCount' = IF ok THEN Len(articles) ELSE 0
  /\ reply' = NoReply
  /\ UNCHANGED << envVars, storeVars, listening, callPc, callTopic,
                  clientVars, llmResult, generated, lastID, response, inserts, stats >>

\* the seed taking every store for empty
isEmptyAlways(count) == TRUE

\* if (row.count === 0)
isEmpty(count) == count = 0

\* seedIfEmpty: the callback of the count query; on 0 it queues the inserts
SeedCallback ==
  /\ seedPc = "callback"
  /\ seedPc' = IF isEmpty(seedCount) THEN "insert1" ELSE "done"
  /\ reply' = NoReply
  /\ UNCHANGED << envVars, storeVars, seedCount, listening, callPc, callTopic,
                  clientVars, llmResult, generated, lastID, response, inserts, stats >>

\* seedIfEmpty: stmt.run of sample k runs
SeedInsert(k) ==
  /\ seedPc = "insert" \o ToString(k)
  /\ articles' = Append(articles, newRow(samples[k].title, samples[k].content))
  /\ lastId' = lastId + 1
  /\ seedPc' = IF k < Len(samples) THEN "insert" \o ToString(k + 1) ELSE "seeded"
  /\ reply' = NoReply
  /\ UNCHANGED << envVars, now, seedCount, listening, callPc, callTopic,
                  clientVars, llmResult, generated, lastID, response, inserts, stats >>

\* app.listen: the port is bound and requests come in
Listen ==
  /\ ~listening
  /\ listening' = TRUE
  /\ reply' = NoReply
  /\ UNCHANGED << envVars, storeVars, seedVars, callPc, callTopic,
                  clientVars, llmResult, generated, lastID, response, inserts, stats >>

(***************************************************************************)
(* The specifications.                                                     *)
(***************************************************************************)
\* Spec, the service: start-up, POST /api/articles/generate, GET /api/articles
Next ==
  \/ \E ok \in BOOLEAN : SeedQuery(ok) /\ UNCHANGED << netVars, histVars, sideVars >>
  \/ SeedCallback /\ UNCHANGED << netVars, histVars, sideVars >>
  \/ \E k \in 1..Len(samples) : SeedInsert(k) /\ UNCHANGED << netVars, histVars, sideVars >>
  \/ Listen /\ UNCHANGED << netVars, histVars, sideVars >>
  \/ \E t \in BodyTopics : RouteGenerate(t) /\ UNCHANGED << netVars, lastBody, sideVars >>
  \/ \E o \in Outcomes(GetErrors, {ObjectBody}) : VerifyStep("http", o) /\ UNCHANGED << netVars, histVars, sideVars >>
  \/ \E o \in Outcomes(ServicePostErrors, ServiceBodies) : PostStep("http", o) /\ UNCHANGED << netVars, histVars, sideVars >>
  \/ \E ok \in BOOLEAN : InsertStep("http", ok) /\ UNCHANGED << netVars, histVars, sideVars >>
  \/ \E ok \in BOOLEAN : RereadStep("http", ok) /\ UNCHANGED << netVars, histVars, sideVars >>
  \/ \E ok \in BOOLEAN : ListArticles(ok) /\ UNCHANGED << netVars, histVars, sideVars >>

Spec == Init /\ [][Next]_vars

\* SpecGen, the generation client: one generateArticle call for any topic,
\* any configured model and any behaviour of the external service, with the
\* requests it issues and their outcomes recorded
InitGen ==
  /\ apiKey \in ApiKeys
  /\ configuredModel \in {configuredModelOf(m) : m \in AiModels}
  /\ articles = <<>>
  /\ lastId = 0
  /\ now = 1
  /\ seedPc = "done"
  /\ seedCount = 0
  /\ listening = TRUE
  /\ InitCalls
  /\ InitBooted

GenStart(t) ==
  /\ callPc["http"] = "idle"
  /\ CreateStart("http", t)
  /\ Issued("http")
  /\ UNCHANGED << ended, histVars, sideVars >>

GenVerify(o) ==
  VerifyStep("http", o) /\ Issued("http") /\ Verified("http", o) /\ UNCHANGED << histVars, sideVars >>

GenPost(o) ==
  PostStep("http", o) /\ Issued("http") /\ Ended("http", o) /\ UNCHANGED << histVars, sideVars >>

NextGen ==
  \/ \E t \in Topics : GenStart(t)
  \/ \E o \in Outcomes(GetErrors, {ObjectBody}) : GenVerify(o)
  \/ \E o \in Outcomes(PostErrors, GenBodies) : GenPost(o)

SpecGen == InitGen /\ [][NextGen]_vars

\* SpecStore, start-up and the two callers of createArticle side by side:
\* a request and the scheduled job, on a first start and on a start with a
\* seeded store
InitStore ==
  /\ apiKey \in ApiKeys
  /\ configuredModel = configuredModelOf("")
  /\ articles \in {<<>>, SeededStore}
  /\ lastId = Len(articles)
  /\ now = 1
  /\ seedPc = "query"
  /\ seedCount = 0
  /\ listening = FALSE
  /\ InitCalls
  /\ InitBooted

NextStore ==
  \/ \E ok \in BOOLEAN : SeedQuery(ok) /\ UNCHANGED << netVars, histVars, sideVars >>
  \/ SeedCallback /\ UNCHANGED << netVars, histVars, sideVars >>
  \/ \E k \in 1..Len(samples) : SeedInsert(k) /\ UNCHANGED << netVars, histVars, sideVars >>
  \/ Listen /\ UNCHANGED << netVars, histVars, sideVars >>
  \/ \E t \in BodyTopics : RouteGenerate(t) /\ UNCHANGED << netVars, lastBody, sideVars >>
  \/ CronFire /\ UNCHANGED << netVars, histVars, sideVars >>
  \/ \E c \in Callers, o \in StoreGetOutcomes :
       VerifyStep(c, o) /\ UNCHANGED << netVars, histVars, sideVars >>
  \/ \E c \in Callers, o \in StorePostOutcomes :
       PostStep(c, o) /\ UNCHANGED << netVars, histVars, sideVars >>
  \/ \E c \in Callers, ok \in BOOLEAN :
       InsertStep(c, ok) /\ UNCHANGED << netVars, histVars, sideVars >>
  \/ \E c \in Callers, ok \in BOOLEAN :
       RereadStep(c, ok) /\ UNCHANGED << netVars, histVars, sideVars >>

SpecStore == InitStore /\ [][NextStore]_vars

\* SpecRoutes, every route of the service, on a first start and on a start
\* with a seeded store
InitRoutes ==
  /\ apiKey \in ApiKeys
  /\ configuredModel = configuredModelOf("")
  /\ articles \in {<<>>, SeededStore}
  /\ lastId = Len(articles)
  /\ now = 1
  /\ seedPc = "query"
  /\ seedCount = 0
  /\ listening = FALSE
  /\ InitCalls
  /\ InitBooted

NextRoutes ==
  \/ \E ok \in BOOLEAN : SeedQuery(ok) /\ UNCHANGED << netVars, histVars, sideVars >>
  \/ SeedCallback /\ UNCHANGED << netVars, histVars, sideVars >>
  \/ \E k \in 1..Len(samples) : SeedInsert(k) /\ UNCHANGED << netVars, histVars, sideVars >>
  \/ Listen /\ UNCHANGED << netVars, histVars, sideVars >>
  \/ \E t \in RouteTopics : RouteGenerate(t) /\ UNCHANGED << netVars, lastBody, sideVars >>
  \/ \E o \in StoreGetOutcomes :
       VerifyStep("http", o) /\ UNCHANGED << netVars, histVars, sideVars >>
  \/ \E o \in StorePostOutcomes :
       PostStep("http", o) /\ UNCHANGED << netVars, histVars, sideVars >>
  \/ \E ok \in BOOLEAN : InsertStep("http", ok) /\ UNCHANGED << netVars, histVars, sideVars >>
  \/ \E ok \in BOOLEAN : RereadStep("http", ok) /\ UNCHANGED << netVars, histVars, sideVars >>
  \/ \E ok \in BOOLEAN : ListArticles(ok) /\ UNCHANGED << netVars, histVars, sideVars >>
  \/ \E id \in GetIds, ok \in BOOLEAN :
       GetArticle(id, ok) /\ UNCHANGED << netVars, histVars, sideVars >>
  \/ \E ok \in BOOLEAN : Health(ok) /\ UNCHANGED << netVars, histVars, sideVars >>
  \/ \E v \in StoreGetOutcomes, p \in StorePostOutcomes :
       Diagnostics(v, p) /\ UNCHANGED << netVars, histVars, sideVars >>

SpecRoutes == InitRoutes /\ [][NextRoutes]_vars

\* SpecNorm, the reading of an answer: one generateArticle call with a
\* credential whose chat requests are all answered 2xx, with a body of any
\* shape, the last body recorded
InitNorm ==
  /\ apiKey = "sk-or-v1-0123456789"
  /\ configuredModel = configuredModelOf("")
  /\ articles = <<>>
  /\ lastId = 0
  /\ now = 1
  /\ seedPc = "done"
  /\ seedCount = 0
  /\ listening = TRUE
  /\ InitCalls
  /\ InitBooted

NormStart == GenStart("DAOs")

NormVerify == GenVerify(Answered(ObjectBody))

NormPost(b) ==
  /\ PostStep("http", Answered(b))
  /\ Issued("http")
  /\ Ended("http", Answered(b))
  /\ lastBody' = b
  /\ UNCHANGED << body, sideVars >>

NextNorm ==
  \/ NormStart
  \/ NormVerify
  \/ \E b \in NormBodies : NormPost(b)

SpecNorm == InitNorm /\ [][NextNorm]_vars

(***************************************************************************)
(* The start of the process: index.js evaluates the modules it imports,    *)
(* then runs its own body, which begins with dotenv.config().              *)
(***************************************************************************)
\* the .env files of the model
EnvFiles ==
  [OPENROUTER_API_KEY : ApiKeys, AI_MODEL : AiModels,
   CRON_SCHEDULE : {"", "*/30 * * * *"}]

\* process.env as the shell hands it over
ShellEnvs == [AI_MODEL : {"", "google/gemini-flash-1.5:free"}, CRON_SCHEDULE : {""}]

\* dotenv: an entry of the file is set unless process.env has the variable
dotenvValue(current, entry) == IF current # "" THEN current ELSE entry

\* process.env.CRON_SCHEDULE || '0 3 * * *'
defaultScheduleOf(cronSchedule) ==
  IF cronSchedule # "" THEN cronSchedule ELSE "0 3 * * *"

InitBoot ==
  /\ apiKey = ""
  /\ configuredModel = ""
  /\ articles = <<>>
  /\ lastId = 0
  /\ now = 1
  /\ seedPc = "query"
  /\ seedCount = 0
  /\ listening = FALSE
  /\ InitCalls
  /\ bootPc = "aiClient"
  /\ dotenvFile \in EnvFiles
  /\ processEnv \in ShellEnvs
  /\ defaultSchedule = ""

bootRest ==
  << storeVars, seedVars, listening, callPc, callTopic, clientVars, llmResult,
     generated, lastID, response, reply, inserts, stats, netVars, histVars,
     diagVars, dotenvFile >>

\* aiClient.js is evaluated (index.js imports it through routes/articles.js
\* and articleService.js): its constants are read from process.env
LoadAiClient ==
  /\ bootPc = "aiClient"
  /\ configuredModel' = configuredModelOf(processEnv.AI_MODEL)
  /\ bootPc' = "articleJob"
  /\ UNCHANGED << apiKey, processEnv, defaultSchedule, bootRest >>

\* articleJob.js is evaluated
LoadArticleJob ==
  /\ bootPc = "articleJob"
  /\ defaultSchedule' = defaultScheduleOf(processEnv.CRON_SCHEDULE)
  /\ bootPc' = "dotenv"
  /\ UNCHANGED << envVars, processEnv, bootRest >>

\* the body of index.js begins: dotenv.config()
DotenvConfig ==
  /\ bootPc = "dotenv"
  /\ apiKey' = dotenvValue(apiKey, dotenvFile.OPENROUTER_API_KEY)
  /\ processEnv' =
       [AI_MODEL |-> dotenvValue(processEnv.AI_MODEL, dotenvFile.AI_MODEL),
        CRON_SCHEDULE |-> dotenvValue(processEnv.CRON_SCHEDULE, dotenvFile.CRON_SCHEDULE)]
  /\ bootPc' = "listen"
  /\ UNCHANGED << configuredModel, defaultSchedule, bootRest >>

\* app.listen; its callback starts the job with defaultSchedule
BootListen ==
  /\ bootPc = "listen"
  /\ Listen
  /\ bootPc' = "running"
  /\ UNCHANGED << netVars, histVars, diagVars, dotenvFile, processEnv, defaultSchedule >>

NextBoot ==
  \/ LoadAiClient
  \/ LoadArticleJob
  \/ DotenvConfig
  \/ BootListen
  \/ GenStart("DAOs")
  \/ \E o \in StoreGetOutcomes : GenVerify(o)
  \/ \E o \in StorePostOutcomes : GenPost(o)

SpecBoot == InitBoot /\ [][NextBoot]_vars

(***************************************************************************)
(* The diagnostic call: GET /api/articles/diagnostics/ai, with every way   *)
(* its two requests end.                                                   *)
(***************************************************************************)
InitDiag ==
  /\ apiKey \in ApiKeys
  /\ configuredModel \in {configuredModelOf(m) : m \in AiModels}
  /\ articles = <<>>
  /\ lastId = 0
  /\ now = 1
  /\ seedPc = "done"
  /\ seedCount = 0
  /\ listening = TRUE
  /\ InitCalls
  /\ InitBooted

diagRest ==
  << envVars, storeVars, seedVars, listening, callPc, callTopic, clientVars,
     llmResult, generated, lastID, response, inserts, stats, netVars, histVars,
     bootVars >>

NextDiag ==
  \/ DiagStart /\ UNCHANGED diagRest
  \/ \E o \in ListingOutcomes : DiagListing(o) /\ UNCHANGED diagRest
  \/ \E o \in Outcomes(PostErrors, GenBodies) : DiagGeneration(o) /\ UNCHANGED diagRest

SpecDiag == InitDiag /\ [][NextDiag]_vars

(***************************************************************************)
(* What the properties below speak of.                                     *)
(***************************************************************************)
\* the call of caller c has got its generateArticle result
Generated(c) == callPc[c] \in {"insert", "reread", "resolved", "rejected"}

\* generateArticle answered the fallback article: generateViaOpenRouter
\* returned nothing usable as a string
TookFallback(c) ==
  /\ Generated(c)
  /\ generated[c].state = "resolved"
  /\ ~(truthy(llmResult[c]) /\ llmResult[c].t = "str")

\* the second paragraph of the fallback article
FixedParagraph ==
  "Practitioners emphasize iterative learning, pragmatic tooling, and measurable outcomes as the best path to sustainable progress."

\* the {title, content} pair that is the fallback article of topic t
IsFallbackOf(g, t) ==
  /\ g.state = "resolved"
  /\ g.title = "Fallback article on " \o t
  /\ includesStr(g.content, "\n\n" \o FixedParagraph \o "\n\n")

\* the rows of the table
Stored == {articles[i] : i \in 1..Len(articles)}

\* the outcomes of a chat-completion request that are failures
FailureKinds == {"401", "429", "400", "404", "500", "timeout", "notext", "threw"}

\* xs is the first Len(xs) entries of ys
IsPrefix(xs, ys) == Len(xs) <= Len(ys) /\ xs = SubSeq(ys, 1, Len(xs))

(***************************************************************************)
(* C1: generateArticle never rejects: whatever the external service does   *)
(* (no credential, any end of the listing request, any status, timeout or  *)
(* body of any shape or type for each chat request), a call that has come  *)
(* back has resolved to a {title, content} pair of strings; a text that    *)
(* is no string makes the try block throw and the catch block answer the   *)
(* fallback.  Checked under SpecGen.                                       *)
(***************************************************************************)
C1_NeverRejects ==
  \A c \in Callers :
    /\ generated[c].state # "rejected"
    /\ callPc[c] # "rejected"
    /\ Generated(c) => generated[c].state = "resolved"
    /\ (Generated(c) /\ truthy(llmResult[c]) /\ llmResult[c].t # "str")
         => IsFallbackOf(generated[c], callTopic[c])

\* a candidate answered a text that is a number, and the call resolved
C1_Witness ==
  /\ ended["http"].last = "text"
  /\ llmResult["http"] = Num("42")
  /\ IsFallbackOf(generated["http"], "DAOs")

(***************************************************************************)
(* C2: the pair generate(t) returns has a non-empty title of at most 140   *)
(* characters and a non-empty content.  The code breaks it: a text of      *)
(* white space only is truthy, parses to no line at all, and the content   *)
(* is the empty string; and the "Fallback article on {t}" and "New         *)
(* article on {t}" titles are not cut to 140 characters.  Checked under    *)
(* Spec.                                                                   *)
(***************************************************************************)
C2_TitleAndContent ==
  \A c \in Callers :
    generated[c].state = "resolved"
      => /\ generated[c].title # ""
         /\ Len(generated[c].title) <= 140
         /\ generated[c].content # ""

(***************************************************************************)
(* C3: POST /api/articles/generate answers 201 with the stored article     *)
(* whatever the external service does; createArticle rejects, and the      *)
(* route answers 500, only when the INSERT or the re-read fails.  Checked  *)
(* under Spec.                                                             *)
(***************************************************************************)
StoreErrors == {"SQLITE_ERROR: insert", "SQLITE_ERROR: select"}

C3_Always201 ==
  /\ callPc["http"] = "resolved"
       => /\ response["http"].status = 201
          /\ response["http"].row \in Stored
          /\ response["http"].row.title = generated["http"].title
          /\ response["http"].row.content = generated["http"].content
  /\ callPc["http"] = "rejected"
       => /\ response["http"].status = 500
          /\ response["http"].details \in StoreErrors
  /\ response["http"].status \in {0, 201, 500}
  /\ response["http"].status # 0 => callPc["http"] \in {"resolved", "rejected"}

\* with a credential set the external service gave nothing usable, and
\* the route answered 201 with the stored fallback article
C3_Witness ==
  /\ apiKey # ""
  /\ response["http"].status = 201
  /\ response["http"].row.title = "Fallback article on DAOs"
  /\ response["http"].row \in Stored

(***************************************************************************)
(* C4: a createArticle call that resolves has inserted exactly one row     *)
(* and returns that row (its id, title, content, created_at); after the    *)
(* seed and N creates, all of them resolved, GET /api/articles answers     *)
(* N + 3 rows.  Checked under Spec.                                        *)
(***************************************************************************)
C4_OneRowPerCreate ==
  /\ \A c \in Callers :
       callPc[c] = "resolved"
         => /\ inserts[c] = 1
            /\ \E r \in Stored :
                 /\ r.id = lastID[c]
                 /\ r.title = generated[c].title
                 /\ r.content = generated[c].content
                 /\ c = "http" => response[c].row = r
            /\ \A r, q \in Stored : r.id = q.id => r = q
  /\ (seedPc = "seeded" /\ stats.resolved = stats.started
        /\ reply.route = "list" /\ reply.status = 200)
       => /\ Cardinality(reply.rows) = stats.resolved + 3
          /\ \A l \in orderings(reply.rows) : Len(l) = stats.resolved + 3

\* the listing after the seed and two resolved creates
C4_Witness ==
  /\ seedPc = "seeded"
  /\ stats.started = 2
  /\ stats.resolved = 2
  /\ reply.route = "list"
  /\ reply.status = 200
  /\ Cardinality(reply.rows) = 5

(***************************************************************************)
(* C5: the candidates are asked in order, and the first answer that        *)
(* carries a text ends the loop: generateViaOpenRouter returns that text   *)
(* and no request is issued for a later candidate.  With candidates 1 and  *)
(* 2 answering 429 and candidate 3 a text, three requests are issued and   *)
(* the article is built from the third answer.  Checked under SpecGen.     *)
(***************************************************************************)
C5_FirstText ==
  \A c \in Callers :
    /\ IsPrefix(posts[c], uniqueModels(configuredModel))
    /\ "text" \notin ended[c].before
    /\ ended[c].last = "text"
         => /\ callPc[c] = "insert"
            /\ Len(posts[c]) = ended[c].count
            /\ llmResult[c] = ended[c].value
            /\ truthy(llmResult[c])
    /\ truthy(llmResult[c]) => ended[c].last = "text"

\* candidates 1 and 2 answered 429, candidate 3 answered "# Hello\nWorld"
C5_Witness ==
  /\ ended["http"].count = 3
  /\ ended["http"].before = {"429"}
  /\ ended["http"].last = "text"
  /\ posts["http"] = SubSeq(uniqueModels(configuredModel), 1, 3)
  /\ llmResult["http"] = Str("# Hello\nWorld")
  /\ generated["http"] = [state |-> "resolved", title |-> "Hello", content |-> "World"]

(***************************************************************************)
(* C6: a 401 answer to a chat-completion request ends the loop: no         *)
(* request goes out for the remaining candidates and generate returns the  *)
(* fallback article of the topic.  Checked under SpecGen.                  *)
(***************************************************************************)
C6_UnauthorizedStops ==
  \A c \in Callers :
    ended[c].last = "401"
      => /\ callPc[c] = "insert"
         /\ Len(posts[c]) = ended[c].count
         /\ llmResult[c] = Null
         /\ IsFallbackOf(generated[c], callTopic[c])

\* the first candidate answered 401
C6_Witness ==
  /\ ended["http"].count = 1
  /\ ended["http"].last = "401"
  /\ posts["http"] = <<configuredModel>>
  /\ IsFallbackOf(generated["http"], "DAOs")

(***************************************************************************)
(* C7: after a failure other than 401 (429, 400, 404, another status, a    *)
(* timeout, an answer without text) the next candidate is asked; the       *)
(* requests follow the candidate list, each candidate at most once, so at  *)
(* most as many requests as candidates; when the last candidate has        *)
(* failed generate returns the fallback article.  Checked under SpecGen.   *)
(***************************************************************************)
C7_NextCandidate ==
  \A c \in Callers :
    LET models == uniqueModels(configuredModel)
    IN  /\ IsPrefix(posts[c], models)
        /\ \A i, j \in 1..Len(posts[c]) : posts[c][i] = posts[c][j] => i = j
        /\ ended[c].count <= Len(models)
        /\ (ended[c].last \in FailureKinds \ {"401"} /\ ended[c].count < Len(models))
             => /\ callPc[c] = "post"
                /\ candidate[c] = ended[c].count + 1
                /\ Len(posts[c]) = ended[c].count + 1
        /\ (ended[c].last \in FailureKinds \ {"401"} /\ ended[c].count = Len(models))
             => /\ callPc[c] = "insert"
                /\ Len(posts[c]) = Len(models)
                /\ IsFallbackOf(generated[c], callTopic[c])

\* every candidate was asked and failed, the last by a timeout
C7_Witness ==
  /\ ended["http"].count = Len(uniqueModels(configuredModel))
  /\ {"429", "400", "404", "notext"} \subseteq ended["http"].before
  /\ ended["http"].last = "timeout"
  /\ posts["http"] = uniqueModels(configuredModel)
  /\ IsFallbackOf(generated["http"], "DAOs")

(***************************************************************************)
(* C8: without a credential generate issues no request, neither the model  *)
(* listing nor a chat completion, and returns the fallback article.        *)
(* Checked under SpecGen.                                                  *)
(***************************************************************************)
C8_NoCredential ==
  apiKey = ""
    => \A c \in Callers :
         /\ gets[c] = 0
         /\ posts[c] = <<>>
         /\ callPc[c] \in {"idle", "insert"}
         /\ callPc[c] = "insert" => IsFallbackOf(generated[c], callTopic[c])

\* a call without a credential has come back
C8_Witness ==
  /\ apiKey = ""
  /\ callPc["http"] = "insert"
  /\ gets["http"] = 0
  /\ IsFallbackOf(generated["http"], "DAOs")

(***************************************************************************)
(* C9: with a credential, a 401 answer to the model listing ends           *)
(* generation before any chat-completion request and generate returns the  *)
(* fallback; any other failure of the listing (another status, a timeout,  *)
(* a network error) lets the candidate loop run.  Checked under SpecGen.   *)
(***************************************************************************)
C9_VerifyUnauthorized ==
  \A c \in Callers :
    /\ ended[c].verify = "401"
         => /\ gets[c] = 1
            /\ posts[c] = <<>>
            /\ callPc[c] = "insert"
            /\ IsFallbackOf(generated[c], callTopic[c])
    /\ ended[c].verify \in {"500", "timeout", "network"}
         => /\ Len(posts[c]) >= 1
            /\ posts[c][1] = configuredModel

\* the listing answered 401 and the call has come back
C9_Witness ==
  /\ apiKey # ""
  /\ ended["http"].verify = "401"
  /\ gets["http"] = 1
  /\ posts["http"] = <<>>
  /\ IsFallbackOf(generated["http"], "DAOs")

(***************************************************************************)
(* C10, as claimed: the title of the fallback article is "Fallback         *)
(* article on {t}" and each of its three paragraphs contains the topic.    *)
(***************************************************************************)
C10_EveryParagraph ==
  \A c \in Callers :
    TookFallback(c)
      => LET ps == split(generated[c].content, "\n\n")
         IN  /\ generated[c].title = "Fallback article on " \o callTopic[c]
             /\ Len(ps) = 3
             /\ \A i \in 1..3 : includesStr(ps[i], callTopic[c])

(***************************************************************************)
(* C10, amended: the fallback article depends on the topic alone: its      *)
(* title is "Fallback article on {t}", its content is three paragraphs,    *)
(* the first and the third contain the topic and the second is a fixed     *)
(* sentence; producing it never fails and issues no request.  Checked      *)
(* under SpecGen.                                                          *)
(***************************************************************************)
C10_Fallback ==
  \A c \in Callers :
    (Generated(c) /\ ~(truthy(llmResult[c]) /\ llmResult[c].t = "str"))
      => LET ps == split(generated[c].content, "\n\n")
         IN  /\ generated[c].state = "resolved"
             /\ generated[c].title = "Fallback article on " \o callTopic[c]
             /\ Len(ps) = 3
             /\ includesStr(ps[1], callTopic[c])
             /\ ps[2] = FixedParagraph
             /\ ~includesStr(ps[2], callTopic[c])
             /\ includesStr(ps[3], callTopic[c])
             /\ generated[c].content = join(paragraphs(callTopic[c]), "\n\n")
             /\ Len(posts[c]) = ended[c].count

\* the fallback article of the long topic, after a 401
C10_Witness ==
  /\ TookFallback("http")
  /\ callTopic["http"] = LongTopic
  /\ ended["http"].last = "401"
  /\ generated["http"].title = "Fallback article on " \o LongTopic

(***************************************************************************)
(* C11: the candidate list is the configured model followed by the         *)
(* alternative free-tier models other than it, in their declared order,    *)
(* with no identifier twice: 5 entries when the configured model is one    *)
(* of the 5 alternatives, 6 otherwise; the chat requests of a call follow  *)
(* that list.  Checked under SpecGen.                                      *)
(***************************************************************************)
C11_CandidateList ==
  LET models == uniqueModels(configuredModel)
      others == SelectSeq(alternativeFreeModels, LAMBDA m : m # configuredModel)
      declared == {alternativeFreeModels[i] : i \in 1..Len(alternativeFreeModels)}
  IN  /\ models = <<configuredModel>> \o others
      /\ \A i, j \in 1..Len(models) : models[i] = models[j] => i = j
      /\ Len(models) = IF configuredModel \in declared THEN 5 ELSE 6
      /\ \A c \in Callers : IsPrefix(posts[c], <<configuredModel>> \o others)

\* the configured model is the third alternative, and all five candidates
\* were requested
C11_Witness ==
  /\ configuredModel = "google/gemini-flash-1.5:free"
  /\ posts["http"] =
       << "google/gemini-flash-1.5:free",
          "meta-llama/llama-3.2-3b-instruct:free",
          "meta-llama/llama-3.1-8b-instruct:free",
          "mistralai/mistral-7b-instruct:free",
          "qwen/qwen-2-7b-instruct:free" >>

(***************************************************************************)
(* C12: normalization returns the first applicable of                      *)
(* choices[0].message.content, choices[0].text, the body itself when a     *)
(* bare string, body.content, body.text, and no text when none applies,    *)
(* which the loop counts as a failure of the candidate.  The code breaks   *)
(* it: for a body whose choices is [null] it throws reading                *)
(* choice.message, so a content or text field of that body is never        *)
(* returned.  Checked under SpecNorm.                                      *)
(***************************************************************************)
FirstText(b) ==
  LET one == b.kind = "obj" /\ b.choices = "one"
      fields ==
        << IF one /\ b.hasMessage THEN b.messageContent ELSE Null,
           IF one THEN b.choiceText ELSE Null,
           IF b.kind = "str" THEN Str(b.str) ELSE Null,
           IF b.kind = "obj" THEN b.content ELSE Null,
           IF b.kind = "obj" THEN b.text ELSE Null >>
      applicable == {i \in 1..Len(fields) : truthy(fields[i])}
  IN  IF applicable = {} THEN Null
      ELSE fields[CHOOSE i \in applicable : \A j \in applicable : i <= j]

C12_Priority ==
  lastBody # NoBody
    => IF truthy(FirstText(lastBody))
         THEN /\ ended["http"].last = "text"
              /\ llmResult["http"] = FirstText(lastBody)
         ELSE /\ ended["http"].last \in {"notext", "threw"}
              /\ llmResult["http"] = Null

(***************************************************************************)
(* C13: a text is parsed into title and content: the title is the first    *)
(* non-empty line without its leading heading markers, cut to 140          *)
(* characters, or "New article on {topic}" when nothing is left of that    *)
(* line; the content is the other non-empty lines joined and trimmed, or   *)
(* the whole trimmed text when the title line is the only one.             *)
(* "# Hello\nWorld" gives title "Hello" and content "World".  Checked      *)
(* under SpecGen, text by text.                                            *)
(***************************************************************************)
C13_Parsing ==
  \A c \in Callers :
    (Generated(c) /\ truthy(llmResult[c]) /\ llmResult[c].t = "str")
      => LET raw == llmResult[c].s
             g == generated[c]
             synthesized == "New article on " \o callTopic[c]
         IN  /\ g.state = "resolved"
             /\ raw \in Texts
             /\ raw = "# Hello\nWorld" => g.title = "Hello" /\ g.content = "World"
             /\ raw = "Just one line"
                  => g.title = "Just one line" /\ g.content = "Just one line"
             /\ raw = "   " => g.title = synthesized /\ g.content = ""
             /\ raw = "##\nOnly a body"
                  => g.title = synthesized /\ g.content = "Only a body"
             /\ Len(raw) > 140
                  => /\ g.title = repeat("Long title ", 12) \o "Long tit"
                     /\ Len(g.title) = 140
                     /\ g.content = "First paragraph.\nSecond paragraph."
             /\ g.title # synthesized
                  => /\ Len(g.title) <= 140
                     /\ charAt(g.title, 1) \notin WhiteSpace \cup {"#"}
                     /\ includesStr(raw, g.title)

\* a text whose first line is a heading of 153 characters, blank lines
\* between its paragraphs
C13_Witness ==
  /\ Len(llmResult["http"].s) > 140
  /\ llmResult["http"].t = "str"
  /\ Len(generated["http"].title) = 140
  /\ generated["http"].content = "First paragraph.\nSecond paragraph."

(***************************************************************************)
(* C14, as claimed: with no credential, for every topic string t in the    *)
(* body of POST /api/articles/generate the created article's title is      *)
(* "Fallback article on t", and the default topic is used only when the    *)
(* body carries no topic.                                                  *)
(***************************************************************************)
C14_EveryTopicString ==
  (apiKey = "" /\ response["http"].status = 201)
    => /\ body.t = "str"
            => response["http"].row.title = "Fallback article on " \o body.s
       /\ callTopic["http"] = DefaultTopic => body = Null

(***************************************************************************)
(* C14, amended: with no credential, POST /api/articles/generate with a    *)
(* non-empty topic string t answers 201 with the title "Fallback article   *)
(* on t"; with no topic or an empty one it answers 201 with the fallback   *)
(* article of the default topic; it answers 500 only on a store error.     *)
(* Checked under SpecRoutes.                                               *)
(***************************************************************************)
C14_FallbackTitle ==
  (apiKey = "" /\ response["http"].status # 0)
    => \/ /\ response["http"].status = 201
          /\ response["http"].row \in Stored
          /\ truthy(body)
               => /\ callTopic["http"] = body.s
                  /\ response["http"].row.title = "Fallback article on " \o body.s
          /\ ~truthy(body)
               => /\ callTopic["http"] = DefaultTopic
                  /\ response["http"].row.title = "Fallback article on " \o DefaultTopic
       \/ /\ response["http"].status = 500
          /\ response["http"].details \in StoreErrors

\* the scenario of the specification: {"topic": "DAOs"}, no credential
C14_Witness ==
  /\ apiKey = ""
  /\ body = Str("DAOs")
  /\ response["http"].status = 201
  /\ response["http"].row.title = "Fallback article on DAOs"
  /\ reply.route = "none"

(***************************************************************************)
(* What the properties of the store speak of.                              *)
(***************************************************************************)
\* the positions of the rows that carry the title of sample k
SampleRows(k) == {i \in 1..Len(articles) : articles[i].title = samples[k].title}

\* the positions of the rows inserted since the process started
NewRows == {i \in 1..Len(articles) : articles[i].created_at # 0}

\* the rows seedIfEmpty has inserted so far
SeedInserted ==
  CASE seedPc = "insert2" -> 1
    [] seedPc = "insert3" -> 2
    [] seedPc = "seeded" -> 3
    [] OTHER -> 0

\* seedIfEmpty has nothing left to do
SeedComplete == seedPc \in {"seeded", "done"}

(***************************************************************************)
(* C15: seeding inserts the three sample articles, each once, when its     *)
(* count query finds the store empty, and nothing when it finds a row; a   *)
(* start on a store that holds the samples does not insert them again, so  *)
(* no sample is ever stored twice.  Checked under SpecStore.               *)
(***************************************************************************)
C15_SeedIdempotent ==
  /\ \A k \in 1..Len(samples) : Cardinality(SampleRows(k)) <= 1
  /\ SeedInserted > 0 => seedCount = 0
  /\ seedPc = "seeded"
       => \A k \in 1..Len(samples) :
            \E i \in NewRows :
              /\ articles[i].title = samples[k].title
              /\ articles[i].content = samples[k].content
  /\ (seedPc \in {"callback", "done"} /\ seedCount > 0)
       => \A k \in 1..Len(samples) : SampleRows(k) \cap NewRows = {}
  /\ seedPc = "done" => \A k \in 1..Len(samples) : SampleRows(k) \cap NewRows = {}

\* a start on a seeded store: the count query found three rows, nothing was
\* inserted by the seed, and a create has added a row since
C15_Witness ==
  /\ seedPc = "done"
  /\ seedCount = 3
  /\ SubSeq(articles, 1, 3) = SeededStore
  /\ Len(articles) = 4
  /\ callPc["cron"] = "resolved"

(***************************************************************************)
(* C16: seeding never races with generation: no generated row is inserted  *)
(* before seedIfEmpty has finished, and the count query of the seed never  *)
(* counts a generated row.  The code breaks it: the count query and the    *)
(* seed inserts run as callbacks of their own, app.listen does not wait    *)
(* for them, and a create that comes in meanwhile inserts its row before   *)
(* or between them.  Checked under SpecStore.                              *)
(***************************************************************************)
C16_SeedBeforeCreates ==
  /\ stats.inserted > 0 => SeedComplete
  /\ seedCount <= Len(articles) - Cardinality(NewRows)

(***************************************************************************)
(* C17: createArticle calls of the route and of the scheduled job, their   *)
(* external calls, inserts and re-reads interleaved in any way, lose no    *)
(* update: every insert adds one row with an id of its own, k successful   *)
(* creates add k rows, and a call resolves to the row that holds the       *)
(* title and content it generated.  Checked under SpecStore.               *)
(***************************************************************************)
C17_NoLostUpdate ==
  /\ \A i, j \in 1..Len(articles) : articles[i].id = articles[j].id => i = j
  /\ Cardinality(NewRows) = SeedInserted + stats.inserted
  /\ (stats.rejected = 0 /\ \A c \in Callers : callPc[c] \in {"idle", "resolved"})
       => stats.inserted = stats.resolved
  /\ \A c \in Callers :
       callPc[c] = "resolved"
         => /\ inserts[c] = 1
            /\ \E r \in Stored :
                 /\ r.id = lastID[c]
                 /\ r.title = generated[c].title
                 /\ r.content = generated[c].content
                 /\ c = "http" => response[c].row = r
  /\ \A c, d \in Callers :
       (c # d /\ inserts[c] = 1 /\ inserts[d] = 1) => lastID[c] # lastID[d]

\* the request inserted first, the job inserted second and resolved, then
\* the request resolved to its own row, a written article next to a
\* fallback one
C17_Witness ==
  /\ callPc["http"] = "resolved"
  /\ callPc["cron"] = "resolved"
  /\ 0 < lastID["http"]
  /\ lastID["http"] < lastID["cron"]
  /\ response["http"].status = 201
  /\ response["http"].row.id = lastID["http"]
  /\ response["http"].row.title = "Hello"
  /\ generated["cron"].title = "Fallback article on " \o DefaultTopic

(***************************************************************************)
(* C18: whatever the service does (seed, create, list, get, health,        *)
(* diagnostics), the store only grows: no step removes or changes a        *)
(* stored row, and a row a step inserts gets an id greater than every id   *)
(* given before; so ids are unique and never reused.  Checked under        *)
(* SpecRoutes, on every step.                                              *)
(***************************************************************************)
C18_StoreOnlyGrows ==
  [][ /\ IsPrefix(articles, articles')
      /\ lastId' >= lastId
      /\ \A i \in (Len(articles) + 1)..Len(articles') :
           /\ articles'[i].id > lastId
           /\ \A j \in 1..Len(articles) : articles'[i].id > articles[j].id
      /\ \A i, j \in 1..Len(articles') : articles'[i].id = articles'[j].id => i = j
    ]_vars

\* a seeded store after two creates, read by GET /api/articles/:id
C18_Witness ==
  /\ seedPc = "seeded"
  /\ Len(articles) = 5
  /\ stats.resolved = 2
  /\ reply.route = "get"
  /\ reply.status = 200

(***************************************************************************)
(* C19: GET /api/articles answers all stored articles, newest first: an    *)
(* article created after another comes before it, also among articles      *)
(* created close together.  The code breaks it: the rows are ordered by    *)
(* created_at alone, a time in whole seconds, and rows of the same second  *)
(* (the three seeded rows) come in an order the query does not fix.        *)
(* Checked under SpecRoutes.                                               *)
(***************************************************************************)
C19_NewestFirst ==
  (reply.route = "list" /\ reply.status = 200)
    => /\ reply.rows = Stored
       /\ \A seq \in orderings(reply.rows) :
            \A i, j \in 1..Len(seq) : i < j => seq[i].id > seq[j].id

(***************************************************************************)
(* C20: GET /api/articles/:id answers 200 with the article when a row has  *)
(* the id, 404 when none has (getArticle resolves to no row, it does not   *)
(* throw), and 500 only when the query fails.  Checked under SpecRoutes.   *)
(***************************************************************************)
C20_GetOutcomes ==
  reply.route = "get"
    => \/ /\ reply.status = 200
          /\ \E r \in Stored : r.id = reply.id /\ reply.rows = {r}
       \/ /\ reply.status = 404
          /\ \A r \in Stored : r.id # reply.id
          /\ reply.rows = {}
          /\ reply.error = "Not found"
       \/ /\ reply.status = 500
          /\ reply.rows = {}
          /\ reply.details \in StoreErrors

\* an id no row has, asked of a store of five rows
C20_Witness ==
  /\ reply.route = "get"
  /\ reply.status = 404
  /\ reply.id = 9
  /\ Len(articles) = 5

(***************************************************************************)
(* C21: every error response of the HTTP API, a response with a 4xx or     *)
(* 5xx status on any endpoint, carries an error summary and a details      *)
(* message.  The code breaks it: the 404 of GET /api/articles/:id is       *)
(* {error: 'Not found'} and the 503 of /health is {ok, db, error}, both    *)
(* without details.  Checked under SpecRoutes.                             *)
(***************************************************************************)
C21_ErrorAndDetails ==
  /\ reply.status >= 400 => reply.error # "" /\ reply.details # ""
  /\ response["http"].status >= 400
       => response["http"].error # "" /\ response["http"].details # ""

(***************************************************************************)
(* C22: GET /health answers 200 with db "connected" when the probe of the  *)
(* store succeeds and 503 with db "disconnected" and the error of the      *)
(* probe when it fails; it never answers 500.  Checked under SpecRoutes.   *)
(***************************************************************************)
C22_Health ==
  reply.route = "health"
    => \/ /\ reply.status = 200
          /\ reply.db = "connected"
          /\ reply.error = ""
       \/ /\ reply.status = 503
          /\ reply.db = "disconnected"
          /\ reply.error \in StoreErrors

\* the probe failed while a create was waiting for its insert
C22_Witness ==
  /\ reply.route = "health"
  /\ reply.status = 503
  /\ reply.db = "disconnected"
  /\ callPc["http"] = "insert"

(***************************************************************************)
(* C26, as stated: after a 429 further candidates are asked, but after a   *)
(* 400 for the configured model, the first candidate, no further candidate *)
(* is asked.  The code has no such asymmetry: its 400 branch only logs.    *)
(* Checked under SpecGen.                                                  *)
(***************************************************************************)
C26_StopsAfter400 ==
  \A c \in Callers :
    /\ (ended[c].count = 1 /\ ended[c].last = "429")
         => Len(posts[c]) = 2
    /\ (ended[c].count = 1 /\ ended[c].last = "400")
         => /\ Len(posts[c]) = 1
            /\ callPc[c] = "insert"

(***************************************************************************)
(* C26, amended: a 400 and a 429 are treated alike.  After either, from    *)
(* the configured model or from a later candidate, the loop goes on to the *)
(* next candidate while one is left, and returns the fallback article      *)
(* after the last.  Checked under SpecGen.                                 *)
(***************************************************************************)
C26_ContinuesAfter400 ==
  \A c \in Callers :
    LET models == uniqueModels(configuredModel)
    IN  ended[c].last \in {"400", "429"}
          => IF ended[c].count < Len(models)
               THEN /\ callPc[c] = "post"
                    /\ posts[c] = SubSeq(models, 1, ended[c].count + 1)
               ELSE /\ callPc[c] = "insert"
                    /\ posts[c] = models
                    /\ llmResult[c] = Null

\* the configured model answered 400 and the second candidate is being asked
C26_Witness ==
  /\ ended["http"].count = 1
  /\ ended["http"].last = "400"
  /\ callPc["http"] = "post"
  /\ posts["http"] = SubSeq(uniqueModels(configuredModel), 1, 2)
  /\ posts["http"][1] = configuredModel

(***************************************************************************)
(* C27: whenever createArticle rejects, the articles table is as it was    *)
(* before the call: the call inserted no row.  The code breaks it: the     *)
(* INSERT and the re-read are two statements, and a re-read that fails     *)
(* rejects the call after its row was stored.  Checked under Spec.         *)
(***************************************************************************)
C27_RejectLeavesStore ==
  \A c \in Callers :
    callPc[c] = "rejected"
      => inserts[c] = 0

(***************************************************************************)
(* C23: a firing of the scheduler starts exactly one createArticle call,   *)
(* with the default topic.  A failure of the call is caught and logged by  *)
(* the callback and the process keeps listening.  Between firings the      *)
(* scheduler starts nothing: once its call has ended, resolved or          *)
(* rejected, nothing of it moves until the next firing.  Checked under     *)
(* SpecStore.                                                              *)
(***************************************************************************)
C23_OncePerFiring ==
  [][ /\ stats'.fired \in {stats.fired, stats.fired + 1}
      /\ stats'.fired = stats.fired + 1
           => /\ stats'.started = stats.started + 1
              /\ callPc["cron"] \in {"idle", "resolved", "rejected"}
              /\ callTopic'["cron"] = "B2B SaaS and open-source Web3 infrastructure"
      /\ (stats'.fired = stats.fired
            /\ callPc["cron"] \in {"idle", "resolved", "rejected"})
           => /\ callPc'["cron"] = callPc["cron"]
              /\ inserts'["cron"] = inserts["cron"]
              /\ response'["cron"] = response["cron"]
              /\ gets'["cron"] = gets["cron"]
              /\ posts'["cron"] = posts["cron"]
      /\ callPc'["cron"] = "rejected"
           => /\ response'["cron"].status = 0
              /\ response'["cron"].error = "Daily article generation failed"
              /\ response'["cron"].details \in StoreErrors
              /\ listening'
    ]_vars

\* the create of one firing was rejected and the next firing started another
C23_Witness ==
  /\ stats.fired = 2
  /\ stats.rejected = 1
  /\ stats.started = 2
  /\ callPc["cron"] = "verify"
  /\ callTopic["cron"] = DefaultTopic
  /\ listening

(***************************************************************************)
(* C24: testOpenRouterConnection never raises, so the diagnostics route    *)
(* answers 200 once the call has returned.  Without a credential the       *)
(* errors list says so and no request was made; a listing request or a     *)
(* chat request that failed (401, another status, timeout, no network)     *)
(* left an entry in the errors list and success false.  Checked under      *)
(* SpecDiag.                                                               *)
(***************************************************************************)
C24_FailuresRecorded ==
  /\ diagPc = "done"
       => /\ reply.route = "diagnostics"
          /\ reply.status = 200
          /\ apiKey = ""
               => /\ diagnostics.errors = << "OPENROUTER_API_KEY is not set" >>
                  /\ ~diagnostics.hasApiKey
                  /\ diagRequests = <<>>
          /\ diagEnded.listing \in {"401", "500", "timeout", "network"}
               => /\ Len(diagnostics.errors) = 1
                  /\ ~diagnostics.success
          /\ diagEnded.listing = "401"
               => diagnostics.errors = << "API key is invalid (401 Unauthorized)" >>
          /\ diagEnded.generation \in {"401", "429", "400", "404", "500", "timeout"}
               => /\ Len(diagnostics.errors) = 1
                  /\ ~diagnostics.success
                  /\ diagnostics.testResponse = Null
  /\ diagPc # "done" => reply.status # 500

\* the listing was answered and the chat request timed out
C24_Witness ==
  /\ diagPc = "done"
  /\ diagEnded.listing = "array"
  /\ diagEnded.generation = "timeout"
  /\ Len(diagnostics.errors) = 1
  /\ reply.status = 200

(***************************************************************************)
(* C25, as stated: with a credential, a diagnostic call that has returned  *)
(* has issued the listing request and then exactly one chat request to the *)
(* configured model, whatever the outcome of the listing.  The code        *)
(* returns from the catch of the listing step, so a failed listing is      *)
(* followed by no chat request.  Checked under SpecDiag.                   *)
(***************************************************************************)
C25_AlwaysOneChat ==
  (apiKey # "" /\ diagPc = "done")
    => diagRequests = << [method |-> "GET", model |-> ""],
                         [method |-> "POST", model |-> configuredModel] >>

(***************************************************************************)
(* C25, amended: with a credential the call issues the listing request     *)
(* once; when the listing is answered and read it issues exactly one chat  *)
(* request, to the configured model; when the listing fails, or its answer *)
(* is no list, it issues no chat request.  No other model is asked and     *)
(* nothing is asked twice, however the requests end.  Checked under        *)
(* SpecDiag.                                                               *)
(***************************************************************************)
C25_OneChatAfterListing ==
  apiKey # ""
    => /\ diagPc # "idle"
            => /\ Len(diagRequests) \in {1, 2}
               /\ diagRequests[1] = [method |-> "GET", model |-> ""]
       /\ Len(diagRequests) = 2
            => diagRequests[2] = [method |-> "POST", model |-> configuredModel]
       /\ diagPc \in {"generation", "done"}
            => (Len(diagRequests) = 2 <=> diagEnded.listing \in {"absent", "array"})
       /\ diagPc = "listing" => Len(diagRequests) = 1

\* the chat request to a configured model other than the fallback model was
\* rate limited, and the call returned without asking another model
C25_Witness ==
  /\ diagPc = "done"
  /\ configuredModel # fallbackModel
  /\ Len(diagRequests) = 2
  /\ diagRequests[2].model = configuredModel
  /\ diagEnded.generation = "429"

(***************************************************************************)
(* C28: in every diagnostics value the call returns, success true goes     *)
(* with an empty errors list and a testResponse, and success false with a  *)
(* non-empty errors list.  The code breaks the first half: for a text that *)
(* is truthy but no string, success is set before text.substring throws,   *)
(* and the catch adds an error and no testResponse.  Checked under         *)
(* SpecDiag.                                                               *)
(***************************************************************************)
C28_SuccessConsistent ==
  diagPc = "done"
    => /\ diagnostics.success
            => /\ diagnostics.errors = <<>>
               /\ diagnostics.testResponse # Null
       /\ ~diagnostics.success => diagnostics.errors # <<>>

(***************************************************************************)
(* C29: the .env file is loaded before any module reads its configuration, *)
(* so once the process runs, the client and the scheduler use what         *)
(* process.env holds after dotenv.config(): the configured model, and so   *)
(* the first candidate asked, is the AI_MODEL of the file when the shell   *)
(* set none, and the schedule is its CRON_SCHEDULE, just as the credential *)
(* is its OPENROUTER_API_KEY.  The code breaks it: the imports of index.js *)
(* are evaluated before its body, so aiClient.js and articleJob.js read    *)
(* process.env before dotenv.config() runs.  The timeout, the token limit  *)
(* and the temperature are read in the same statements as the model.       *)
(* Checked under SpecBoot.                                                 *)
(***************************************************************************)
C29_EnvFileUsed ==
  bootPc = "running"
    => /\ apiKey = dotenvFile.OPENROUTER_API_KEY
       /\ configuredModel = configuredModelOf(processEnv.AI_MODEL)
       /\ defaultSchedule = defaultScheduleOf(processEnv.CRON_SCHEDULE)
       /\ posts["http"] # <<>>
            => posts["http"][1] = configuredModelOf(processEnv.AI_MODEL)

====
